---- MODULE Spec2Model ----
(***************************************************************************)
(* A model of the batch source-transformation scripts of                   *)
(* flyingcys/pico-logicanalyzer:                                           *)
(*   - apply-mock-optimizations.py: MockOptimizationApplier (discovery,    *)
(*     backup, the four text phases, the apply loop, the report);          *)
(*   - final-fix.py, fix-variable-errors.py and fix-typescript-errors.py:   *)
(*     line-indexed patching;                                              *)
(*   - fix-eslint-errors.py, fix-variable-errors.py, final-fix.py and      *)
(*     fix-all-typescript-errors.py: import deduplication;                 *)
(*   - fix-all-typescript-errors.py: the rename rules of                   *)
(*     fix_variable_names.                                                 *)
(*                                                                         *)
(* Texts are sequences of lines; a line is a record [k, v]: its kind k     *)
(* (which substrings and patterns of the code it matches) and the name v   *)
(* it mentions.  File contents of the patch scripts are sequences of       *)
(* characters, "\n" among them.  Paths are sequences of name pieces, the   *)
(* piece ".optimized" among them.                                          *)
(***************************************************************************)
EXTENDS Integers, Sequences, FiniteSets, TLC

VARIABLES
    \* ---- apply_optimizations (apply-mock-optimizations.py) ----
    dry_run,            \* the dry_run argument of apply_optimizations
    pc,                 \* position in main / apply_optimizations
    files,              \* optimized_files: the discovered companions, in order
    i,                  \* index of the current companion in files (1-based)
    orig,               \* disk: original path -> text, or NoFile
    comp,               \* disk: companion path -> text, or NoFile
    backup,             \* disk: backup_dir/<original path> -> text, or NoFile
    results,            \* results: [processed, skipped, errors]
    optimized_content,  \* local of the loop body
    final_content,      \* local of the loop body
    report,             \* disk: the report file, NoFile or <<what was written>>
    reportCalls,        \* history: calls of generate_report
    preRun,             \* history: orig when the run started
    preRunBackup,       \* history: backup when the run started
    preRunComp,         \* history: comp when the run started
    backedUp,           \* history: originals whose create_backup succeeded
    mutated,            \* history: originals opened for writing by the run
    jobOrig,            \* history: the original's text when the job started
    counted,            \* history: the companions counted as processed
    \* ---- the text phases as pure functions ----
    text,               \* the input text
    once,               \* apply_additional_optimizations(text)
    twice,              \* apply_additional_optimizations(once)
    optPc,              \* "in" | "once" | "twice"
    \* ---- the line-indexed patch scripts ----
    content,            \* the file's characters before the script ran
    patchPc,            \* "read" | "final_fix" | "process_file" | ...
    replacements,       \* final-fix.py: sequence of <<line_num, replacement>>
    line_fixes,         \* the rename patches: <<line_num, old, new>>*
    written,            \* the file's characters after the script ran
    didWrite,           \* whether the script wrote the file
    patchBackups,       \* backups of the file made by the script's run
    \* ---- the import deduplication passes ----
    source,             \* the lines of the file before the pass
    pass,               \* which pass ran: "eslint" | "variable" | "filter"
    deduped,            \* the lines the pass returns for source
    again,              \* the lines the pass returns for deduped
    impPc,              \* "in" | "once" | "twice"
    \* ---- optimize_assertions alone ----
    asserted,           \* optimize_assertions(text)
    \* ---- fix_variable_names (fix-all-typescript-errors.py) ----
    ts_content,         \* the content of a .ts file, in tokens
    renamed,            \* the content after one run of the rules
    renamed_again,      \* the content after a second run of the rules
    namePc              \* "in" | "once" | "twice"

runVars == <<dry_run, pc, files, i, orig, comp, backup, results,
             optimized_content, final_content, report, reportCalls,
             preRun, preRunBackup, preRunComp, backedUp, mutated, jobOrig,
             counted>>
optVars == <<text, once, twice, optPc>>
patchVars == <<content, patchPc, replacements, line_fixes, written, didWrite,
               patchBackups>>
impVars == <<source, pass, deduped, again, impPc>>
assertVars == <<asserted>>
nameVars == <<ts_content, renamed, renamed_again, namePc>>
vars == <<runVars, optVars, patchVars, impVars, assertVars, nameVars>>

----------------------------------------------------------------------------
(* Bounds of the model *)

\* longest text, in lines, given to apply_additional_optimizations
MaxOptLines == 4
\* most companions on disk in one run
MaxFiles == 2
\* longest file, in characters, given to the patch scripts
MaxChars == 3
\* most patches in one patch set
MaxPatches == 2
\* largest line number a patch names
MaxLineNum == 2

----------------------------------------------------------------------------
(* Generic helpers *)

\* a path with no file: every text has at least one line
NoFile == <<>>
None == "None"

\* all sequences over S of length lo..hi
SeqsBetween(S, lo, hi) == UNION {[1..n -> S] : n \in lo..hi}

RECURSIVE Flatten(_)
\* ''.join(seqs)
Flatten(seqs) ==
    IF seqs = <<>> THEN <<>> ELSE Head(seqs) \o Flatten(Tail(seqs))

----------------------------------------------------------------------------
(* Lines of a test file, by the patterns of apply-mock-optimizations.py    *)

Line(k, v) == [k |-> k, v |-> v]

\* an unrelated line of code
Code == Line("code", "")
\* the empty line
Blank == Line("blank", "")
\* the marker comment that optimize_assertions prints before a compacted run
Marker == Line("marker", "")
\* '    expect(v).toBeDefined();' exactly as optimize_assertions prints it
Canon(v) == Line("assert", v)
\* 'expect(v).toBeDefined()' in another layout (other indent, no semicolon)
Loose(v) == Line("assert2", v)
\* '    expect(v).not.toBeDefined();'
Negated(v) == Line("negated", v)
\* '      .toBeDefined();' the tail of an assertion broken over two lines
Chain == Line("chain", "")
\* 'const m = jest.fn().mockReturnValue(true);'
Mock == Line("mock", "")
\* 'const m = () => true;'
Arrow == Line("arrow", "")
\* 'const m = jest.fn().mockReturnValue(new Array(8).fill(1));'
MockArray == Line("mockarray", "")
\* 'const m = () => new Array(8).fill(0);'
ArrowArray == Line("arrowarray", "")
\* 'beforeEach(() => {});' / 'afterEach(() => {});' at column 0
Hook(which) == Line(which, "")

\* 'expect(' in line and '.toBeDefined()' in line
StartsRun(line) == line.k \in {"assert", "assert2", "negated"}
\* 'toBeDefined()' in lines[i]
InRun(line) == line.k \in {"assert", "assert2", "negated", "chain"}
\* re.search(r'expect\(([^)]+)\)\.toBeDefined\(\)', line): group(1), or None
MatchVar(line) == IF line.k \in {"assert", "assert2"} THEN line.v ELSE None

\* more than this many collected names compact the run
Threshold == 3
\* defined_vars[:3]
Keep == 3

----------------------------------------------------------------------------
(* The four phases of apply_additional_optimizations *)

\* re.sub of the mockReturnValue patterns: no pattern spans a line
remove_excessive_mocks(lines) ==
    [n \in 1..Len(lines) |-> IF lines[n] = Mock THEN Arrow ELSE lines[n]]

\* 'mockReturnValue(' in content
HasMockReturnValue(lines) ==
    \E n \in 1..Len(lines) : lines[n].k \in {"mock", "mockarray"}
\* 'new Array(' in content
HasNewArray(lines) ==
    \E n \in 1..Len(lines) : lines[n].k \in {"mockarray", "arrowarray"}

simplify_test_data(lines) ==
    IF HasMockReturnValue(lines) /\ HasNewArray(lines)
    THEN [n \in 1..Len(lines) |->
             IF lines[n] = MockArray THEN ArrowArray ELSE lines[n]]
    ELSE lines

RECURSIVE RunEnd(_, _)
\* the inner while: the first index from n on whose line is not InRun
RunEnd(lines, n) ==
    IF n <= Len(lines) /\ InRun(lines[n]) THEN RunEnd(lines, n + 1) ELSE n

RECURSIVE DefinedVars(_, _, _)
\* defined_vars: the names the pattern finds in lines[from..to-1]
DefinedVars(lines, from, to) ==
    IF from >= to THEN <<>>
    ELSE (IF MatchVar(lines[from]) # None
          THEN <<MatchVar(lines[from])>> ELSE <<>>)
         \o DefinedVars(lines, from + 1, to)

\* faulty variant: the last names of the run are kept, not the first
Compacted_Last(defined_vars) ==
    <<Marker>> \o [n \in 1..Keep |->
                      Canon(defined_vars[Len(defined_vars) - Keep + n])]

\* what the loop body appends for a run whose names exceed the threshold
Compacted(defined_vars) ==
    <<Marker>> \o [n \in 1..Keep |-> Canon(defined_vars[n])]

RECURSIVE AssertionLoop(_, _, _)
\* the outer while of optimize_assertions, at index n with optimized_lines
AssertionLoop(lines, n, optimized_lines) ==
    IF n > Len(lines) THEN optimized_lines
    ELSE IF StartsRun(lines[n])
    THEN LET end == RunEnd(lines, n)
             defined_vars == DefinedVars(lines, n, end)
         IN IF Len(defined_vars) > Threshold
            THEN AssertionLoop(lines, end,
                               optimized_lines \o Compacted(defined_vars))
            \* falls through to append(line), i += 1 with i already at end
            ELSE AssertionLoop(lines, end + 1,
                               Append(optimized_lines, lines[n]))
    ELSE AssertionLoop(lines, n + 1, Append(optimized_lines, lines[n]))

optimize_assertions(lines) == AssertionLoop(lines, 1, <<>>)

RECURSIVE EatenBy(_, _, _)
\* whether line n is inside a match of '<which>(() => {\s*});?\s*\n':
\* a hook line that a newline follows, or an empty line that a newline
\* follows and that comes right after an eaten line
EatenBy(lines, which, n) ==
    /\ n < Len(lines)
    /\ \/ lines[n] = Hook(which)
       \/ lines[n] = Blank /\ n > 1 /\ EatenBy(lines, which, n - 1)

RECURSIVE KeepFrom(_, _, _)
KeepFrom(lines, which, n) ==
    IF n > Len(lines) THEN <<>>
    ELSE (IF EatenBy(lines, which, n) THEN <<>> ELSE <<lines[n]>>)
         \o KeepFrom(lines, which, n + 1)

\* one re.sub of optimize_hooks
StripHooks(lines, which) == KeepFrom(lines, which, 1)

optimize_hooks(lines) ==
    StripHooks(StripHooks(lines, "beforeEach"), "afterEach")

apply_additional_optimizations(lines) ==
    optimize_hooks(optimize_assertions(
        simplify_test_data(remove_excessive_mocks(lines))))

----------------------------------------------------------------------------
(* Paths and the disk of a run of apply-mock-optimizations.py *)

\* the companions the globs 'tests/**/*.optimized', 'utest/**/*.optimized'
\* can find: names that end in '.optimized'
CompanionPaths ==
    { <<"tests/a", ".ts", ".optimized">>,
      <<"tests/a", ".optimized", ".ts", ".optimized">>,
      <<"tests/b", ".ts", ".optimized">> }

\* optimized_file.replace('.optimized', ''): every occurrence is removed
OriginalOf(optimized_file) ==
    SelectSeq(optimized_file, LAMBDA piece : piece # ".optimized")

OriginalPaths == {OriginalOf(p) : p \in CompanionPaths}

\* texts a companion may hold and texts an original may hold before the run
CompanionTexts == { <<Mock>>, <<Code>> }
OriginalTexts == { <<Code, Code>> }
\* what a backup directory left by an earlier run holds
StaleText == <<Blank>>

\* the companions on disk
Existing(disk) == {p \in DOMAIN disk : disk[p] # NoFile}

\* all orders of a finite set, as sequences without repetition
Orders(S) ==
    {f \in [1..Cardinality(S) -> S] :
        \A m, n \in 1..Cardinality(S) : m # n => f[m] # f[n]}

\* results = {'processed': 0, 'skipped': 0, 'errors': []}
EmptyResults == [processed |-> 0, skipped |-> 0, errors |-> <<>>]

\* what a write that fails part way leaves: the empty file or the first
\* lines of the text
Truncated(lines) ==
    ({<<Blank>>} \cup {SubSeq(lines, 1, n) : n \in 1..(Len(lines) - 1)})
        \ {lines}

\* the current companion and its original
optimized_file == files[i]
original_file == OriginalOf(files[i])

\* error_msg: the companion's name and the exception's text
ErrorMsg(file, what) == <<file, what>>

----------------------------------------------------------------------------
(* main and apply_optimizations, one action per step that touches the disk *)

\* if not dry_run: self.create_backup(original_file)
AfterExists == IF dry_run THEN "read" ELSE "backup"

\* faulty variant: the second dry_run test is missing
AfterTransform_Always == "write"

\* if not dry_run: write the original and remove the companion
AfterTransform == IF dry_run THEN "count" ELSE "write"

\* find_optimized_files: glob returns the companions on disk in some order
FindOptimizedFiles ==
    /\ pc = "find"
    /\ files' \in Orders(Existing(comp))
    /\ results' = EmptyResults
    /\ i' = 1
    /\ pc' = "loop"
    /\ UNCHANGED <<dry_run, orig, comp, backup, optimized_content,
                   final_content, report, reportCalls, preRun, preRunBackup,
                   preRunComp, backedUp, mutated, jobOrig>>
    /\ UNCHANGED counted
    /\ UNCHANGED <<optVars, patchVars, impVars, assertVars, nameVars>>

\* the for statement and the os.path.exists test of the original
LoopHead ==
    /\ pc = "loop"
    /\ \/ /\ i > Len(files)
          /\ pc' = "report"
          /\ UNCHANGED <<i, results, jobOrig>>
       \/ /\ i <= Len(files)
          /\ orig[original_file] = NoFile
          /\ results' = [results EXCEPT !.skipped = @ + 1]
          /\ i' = i + 1
          /\ pc' = "loop"
          /\ UNCHANGED jobOrig
       \/ /\ i <= Len(files)
          /\ orig[original_file] # NoFile
          /\ jobOrig' = orig[original_file]
          /\ pc' = AfterExists
          /\ UNCHANGED <<i, results>>
    /\ UNCHANGED <<dry_run, files, orig, comp, backup, optimized_content,
                   final_content, report, reportCalls, preRun, preRunBackup,
                   preRunComp, backedUp, mutated>>
    /\ UNCHANGED counted
    /\ UNCHANGED <<optVars, patchVars, impVars, assertVars, nameVars>>

\* faulty variant: the handler leaves the loop after recording the message
HandleException_Break(what) ==
    /\ results' = [results EXCEPT
                     !.errors = Append(@, ErrorMsg(optimized_file, what))]
    /\ i' = i
    /\ pc' = "report"

\* faulty variant: the message is put in front of the earlier messages
HandleException_Prepend(what) ==
    /\ results' = [results EXCEPT
                     !.errors = <<ErrorMsg(optimized_file, what)>> \o @]
    /\ i' = i + 1
    /\ pc' = "loop"

\* except Exception as e: the message is recorded and the loop goes on
HandleException(what) ==
    /\ results' = [results EXCEPT
                     !.errors = Append(@, ErrorMsg(optimized_file, what))]
    /\ i' = i + 1
    /\ pc' = "loop"

\* create_backup: shutil.copy2 of the original over backup_dir/<rel_path>
CreateBackupOk ==
    /\ backup' = [backup EXCEPT ![original_file] = orig[original_file]]
    /\ backedUp' = backedUp \cup {original_file}
    /\ pc' = "read"
    /\ UNCHANGED <<i, results>>

\* faulty variant: the failure of create_backup is swallowed and the job goes on
CreateBackupFails_Swallowed ==
    /\ pc' = "read"
    /\ UNCHANGED <<backup, backedUp, i, results>>

\* create_backup raises: the source is unreadable or the target unwritable
CreateBackupFails ==
    /\ HandleException("backup")
    /\ UNCHANGED <<backup, backedUp>>

CreateBackup ==
    /\ pc = "backup"
    /\ \/ CreateBackupOk
       \/ CreateBackupFails
    /\ UNCHANGED <<dry_run, files, orig, comp, optimized_content,
                   final_content, report, reportCalls, preRun, preRunBackup,
                   preRunComp, mutated, jobOrig>>
    /\ UNCHANGED counted
    /\ UNCHANGED <<optVars, patchVars, impVars, assertVars, nameVars>>

\* open(optimized_file, 'r') and f.read()
ReadOptimized ==
    /\ pc = "read"
    /\ \/ /\ optimized_content' = comp[optimized_file]
          /\ pc' = "transform"
          /\ UNCHANGED <<i, results>>
       \/ /\ HandleException("read")
          /\ UNCHANGED optimized_content
    /\ UNCHANGED <<dry_run, files, orig, comp, backup, final_content, report,
                   reportCalls, preRun, preRunBackup, preRunComp, backedUp,
                   mutated, jobOrig>>
    /\ UNCHANGED counted
    /\ UNCHANGED <<optVars, patchVars, impVars, assertVars, nameVars>>

\* final_content = self.apply_additional_optimizations(optimized_content)
Transform ==
    /\ pc = "transform"
    /\ final_content' = apply_additional_optimizations(optimized_content)
    /\ pc' = AfterTransform
    /\ UNCHANGED <<dry_run, files, i, orig, comp, backup, results,
                   optimized_content, report, reportCalls, preRun,
                   preRunBackup, preRunComp, backedUp, mutated, jobOrig>>
    /\ UNCHANGED counted
    /\ UNCHANGED <<optVars, patchVars, impVars, assertVars, nameVars>>

\* open(original_file, 'w') and f.write(final_content)
WriteOriginal ==
    /\ pc = "write"
    /\ \/ /\ orig' = [orig EXCEPT ![original_file] = final_content]
          /\ mutated' = mutated \cup {original_file}
          /\ pc' = "remove"
          /\ UNCHANGED <<i, results>>
       \/ \* open raises: nothing was written
          /\ HandleException("open")
          /\ UNCHANGED <<orig, mutated>>
       \/ \* write raises after open truncated the file
          /\ \E part \in Truncated(final_content) :
                orig' = [orig EXCEPT ![original_file] = part]
          /\ mutated' = mutated \cup {original_file}
          /\ HandleException("write")
    /\ UNCHANGED <<dry_run, files, comp, backup, optimized_content,
                   final_content, report, reportCalls, preRun, preRunBackup,
                   preRunComp, backedUp, jobOrig>>
    /\ UNCHANGED counted
    /\ UNCHANGED <<optVars, patchVars, impVars, assertVars, nameVars>>

\* os.remove(optimized_file)
RemoveOptimized ==
    /\ pc = "remove"
    /\ \/ /\ comp' = [comp EXCEPT ![optimized_file] = NoFile]
          /\ pc' = "count"
          /\ UNCHANGED <<i, results>>
       \/ /\ HandleException("remove")
          /\ UNCHANGED comp
    /\ UNCHANGED <<dry_run, files, orig, backup, optimized_content,
                   final_content, report, reportCalls, preRun, preRunBackup,
                   preRunComp, backedUp, mutated, jobOrig>>
    /\ UNCHANGED counted
    /\ UNCHANGED <<optVars, patchVars, impVars, assertVars, nameVars>>

\* results['processed'] += 1
CountProcessed ==
    /\ pc = "count"
    /\ results' = [results EXCEPT !.processed = @ + 1]
    /\ counted' = counted \cup {optimized_file}
    /\ i' = i + 1
    /\ pc' = "loop"
    /\ UNCHANGED <<dry_run, files, orig, comp, backup, optimized_content,
                   final_content, report, reportCalls, preRun, preRunBackup,
                   preRunComp, backedUp, mutated, jobOrig>>
    /\ UNCHANGED <<optVars, patchVars, impVars, assertVars, nameVars>>

\* main: applier.generate_report(results), which may fail to write the file
GenerateReport ==
    /\ pc = "report"
    /\ reportCalls' = reportCalls + 1
    /\ \/ /\ report' = <<results>>
          /\ pc' = "done"
       \/ /\ pc' = "aborted"
          /\ UNCHANGED report
    /\ UNCHANGED <<dry_run, files, i, orig, comp, backup, results,
                   optimized_content, final_content, preRun, preRunBackup,
                   preRunComp, backedUp, mutated, jobOrig>>
    /\ UNCHANGED counted
    /\ UNCHANGED <<optVars, patchVars, impVars, assertVars, nameVars>>

----------------------------------------------------------------------------
(* Values of the variables a specification does not use *)

RunIdle ==
    /\ dry_run = FALSE /\ pc = "idle" /\ files = <<>> /\ i = 0
    /\ orig = <<>> /\ comp = <<>> /\ backup = <<>>
    /\ results = EmptyResults
    /\ optimized_content = <<>> /\ final_content = <<>>
    /\ report = NoFile /\ reportCalls = 0
    /\ preRun = <<>> /\ preRunBackup = <<>> /\ preRunComp = <<>>
    /\ backedUp = {} /\ mutated = {} /\ jobOrig = NoFile
    /\ counted = {}

OptIdle == text = <<>> /\ once = <<>> /\ twice = <<>> /\ optPc = "idle"

PatchIdle ==
    /\ content = <<>> /\ patchPc = "idle" /\ replacements = <<>>
    /\ line_fixes = <<>> /\ written = <<>> /\ didWrite = FALSE
    /\ patchBackups = {}

ImpIdle ==
    /\ source = <<>> /\ pass = "" /\ deduped = <<>> /\ again = <<>>
    /\ impPc = "idle"

AssertIdle == asserted = <<>>

NameIdle ==
    /\ ts_content = <<>> /\ renamed = <<>> /\ renamed_again = <<>>
    /\ namePc = "idle"

----------------------------------------------------------------------------
(* Spec: one invocation of apply-mock-optimizations.py *)

\* the disk before the run: at most MaxFiles companions, each original
\* present or not, the backup directory empty or left by an earlier run
Init ==
    /\ dry_run \in BOOLEAN
    /\ pc = "find"
    /\ files = <<>>
    /\ i = 0
    /\ comp \in {d \in [CompanionPaths -> CompanionTexts \cup {NoFile}] :
                    Cardinality(Existing(d)) <= MaxFiles}
    /\ orig \in [OriginalPaths -> OriginalTexts \cup {NoFile}]
    /\ backup \in {[o \in OriginalPaths |-> NoFile],
                   [o \in OriginalPaths |-> StaleText]}
    /\ results = EmptyResults
    /\ optimized_content = <<>>
    /\ final_content = <<>>
    /\ report = NoFile
    /\ reportCalls = 0
    /\ preRun = orig
    /\ preRunBackup = backup
    /\ preRunComp = comp
    /\ backedUp = {}
    /\ mutated = {}
    /\ jobOrig = NoFile
    /\ counted = {}
    /\ OptIdle
    /\ PatchIdle
    /\ ImpIdle
    /\ AssertIdle
    /\ NameIdle

Next ==
    \/ FindOptimizedFiles
    \/ LoopHead
    \/ CreateBackup
    \/ ReadOptimized
    \/ Transform
    \/ WriteOriginal
    \/ RemoveOptimized
    \/ CountProcessed
    \/ GenerateReport

Spec == Init /\ [][Next]_vars

\* the interpreter runs main to its end: no step waits for anything
FairSpec == Spec /\ WF_vars(Next)

----------------------------------------------------------------------------
(* SpecOpt: apply_additional_optimizations applied to a text, and again to *)
(* its own output                                                          *)

OptLines ==
    {Code, Blank, Marker, Canon("x"), Canon("y"), Loose("x"), Mock,
     MockArray, Hook("beforeEach")}

InitOpt ==
    /\ text \in SeqsBetween(OptLines, 1, MaxOptLines)
    /\ once = <<>>
    /\ twice = <<>>
    /\ optPc = "in"
    /\ RunIdle
    /\ PatchIdle
    /\ ImpIdle
    /\ AssertIdle
    /\ NameIdle

ApplyOnce ==
    /\ optPc = "in"
    /\ once' = apply_additional_optimizations(text)
    /\ optPc' = "once"
    /\ UNCHANGED <<text, twice>>
    /\ UNCHANGED <<runVars, patchVars, impVars, assertVars, nameVars>>

ApplyTwice ==
    /\ optPc = "once"
    /\ twice' = apply_additional_optimizations(once)
    /\ optPc' = "twice"
    /\ UNCHANGED <<text, once>>
    /\ UNCHANGED <<runVars, patchVars, impVars, assertVars, nameVars>>

NextOpt ==
    \/ ApplyOnce
    \/ ApplyTwice

SpecOpt == InitOpt /\ [][NextOpt]_vars

----------------------------------------------------------------------------
(* The line-indexed patch scripts: final-fix.py (NetworkDriverTemplate.ts) *)
(* and fix-variable-errors.py (process_file)                               *)

\* the characters of a file: two word characters and the line end
Chars == {"e", "_", "\n"}
\* the replacement texts of final-fix.py: '', a plain text, a text that
\* itself ends in a line end
ReplacementTexts == { <<>>, <<"e">>, <<"e", "\n">> }

RECURSIVE LineEnd(_, _)
\* the index of the first "\n" of chars from n on, or Len(chars)
LineEnd(chars, n) ==
    IF n >= Len(chars) \/ chars[n] = "\n" THEN n ELSE LineEnd(chars, n + 1)

RECURSIVE readlines(_)
\* f.readlines(): the lines, each with its line end
readlines(chars) ==
    IF chars = <<>> THEN <<>>
    ELSE LET end == LineEnd(chars, 1)
         IN <<SubSeq(chars, 1, end)>>
            \o readlines(SubSeq(chars, end + 1, Len(chars)))

\* f.writelines(lines)
writelines(lines) == Flatten(lines)

\* replacement + '\n' if replacement else ''
ReplacementLine(replacement) ==
    IF replacement # <<>> THEN replacement \o <<"\n">> ELSE <<>>

RECURSIVE ApplyReplacements_Appending(_, _)
\* faulty variant: a patch past the end of the file is appended, not ignored
ApplyReplacements_Appending(lines, items) ==
    IF items = <<>> THEN lines
    ELSE LET line_num == Head(items)[1]
             replacement == Head(items)[2]
         IN ApplyReplacements_Appending(
                IF line_num - 1 < Len(lines)
                THEN [lines EXCEPT ![line_num] = ReplacementLine(replacement)]
                ELSE Append(lines, ReplacementLine(replacement)),
                Tail(items))

RECURSIVE ApplyReplacements(_, _)
\* for line_num, replacement in replacements.items(): ...
ApplyReplacements(lines, items) ==
    IF items = <<>> THEN lines
    ELSE LET line_num == Head(items)[1]
             replacement == Head(items)[2]
         IN ApplyReplacements(
                IF line_num - 1 < Len(lines)
                THEN [lines EXCEPT ![line_num] = ReplacementLine(replacement)]
                ELSE lines,
                Tail(items))

\* \w of the pattern
IsWord(c) == c \in {"e", "_"}
WordAt(line, n) == n \in 1..Len(line) /\ IsWord(line[n])
\* \b just before position n
Boundary(line, n) == WordAt(line, n - 1) # WordAt(line, n)

\* a match of \b old \b that starts at position n
MatchAt(line, n, old) ==
    /\ n + Len(old) - 1 <= Len(line)
    /\ SubSeq(line, n, n + Len(old) - 1) = old
    /\ Boundary(line, n)
    /\ Boundary(line, n + Len(old))

RECURSIVE SubFrom(_, _, _, _)
\* re.sub from position n on: matches left to right, without overlap
SubFrom(line, n, old, new) ==
    IF n > Len(line) THEN <<>>
    ELSE IF MatchAt(line, n, old)
    THEN new \o SubFrom(line, n + Len(old), old, new)
    ELSE <<line[n]>> \o SubFrom(line, n + 1, old, new)

\* fix_line(line, old_var, new_var)
fix_line(line, old_var, new_var) == SubFrom(line, 1, old_var, new_var)

RECURSIVE ApplyLineFixes(_, _, _)
\* the for loop of process_file: <<lines, modified>> at its end
ApplyLineFixes(lines, modified, fixes) ==
    IF fixes = <<>> THEN <<lines, modified>>
    ELSE LET idx == Head(fixes)[1] - 1
             old_var == Head(fixes)[2]
             new_var == Head(fixes)[3]
         IN IF idx < Len(lines)
            THEN LET old_line == lines[idx + 1]
                     new_line == fix_line(old_line, old_var, new_var)
                 IN IF old_line # new_line
                    THEN ApplyLineFixes([lines EXCEPT ![idx + 1] = new_line],
                                        TRUE, Tail(fixes))
                    ELSE ApplyLineFixes(lines, modified, Tail(fixes))
            ELSE ApplyLineFixes(lines, modified, Tail(fixes))

\* the replacements dict: line numbers are keys, so no number comes twice
ReplacementSets ==
    {r \in SeqsBetween((1..MaxLineNum) \X ReplacementTexts, 0, MaxPatches) :
        \A m, n \in 1..Len(r) : m < n => r[m][1] < r[n][1]}

\* the renames of the fixes table: 'error' -> '_error', '_error' -> 'error'
\* and a rename between two other names
Renames == { << <<"e">>, <<"_", "e">> >>,
             << <<"_", "e">>, <<"e">> >>,
             << <<"_">>, <<"e">> >> }

\* the entries of fixes[file_path]: <<line number, old name, new name>>
LineFixSets ==
    SeqsBetween({<<n, r[1], r[2]>> : n \in 1..MaxLineNum, r \in Renames},
                0, MaxPatches)

InitPatch ==
    /\ content \in SeqsBetween(Chars, 0, MaxChars)
    /\ patchPc = "read"
    /\ replacements = <<>>
    /\ line_fixes = <<>>
    /\ written = content
    /\ didWrite = FALSE
    /\ patchBackups = {}
    /\ RunIdle
    /\ OptIdle
    /\ ImpIdle
    /\ AssertIdle
    /\ NameIdle

\* final-fix.py, fix_remaining_issues, step 3: the file is read, patched
\* and written back
FixRemainingIssues ==
    /\ patchPc = "read"
    /\ \E r \in ReplacementSets :
          /\ replacements' = r
          /\ written' = writelines(ApplyReplacements(readlines(content), r))
    /\ didWrite' = TRUE
    /\ patchPc' = "final_fix"
    /\ UNCHANGED <<content, line_fixes, patchBackups>>
    /\ UNCHANGED <<runVars, optVars, impVars, assertVars, nameVars>>

\* fix-variable-errors.py, process_file: the file is written back when a
\* line changed
ProcessFile ==
    /\ patchPc = "read"
    /\ \E fixes \in LineFixSets :
          LET lines == readlines(content)
              done == ApplyLineFixes(lines, FALSE, fixes)
          IN /\ line_fixes' = fixes
             /\ didWrite' = done[2]
             /\ written' = IF done[2] THEN writelines(done[1]) ELSE content
    /\ patchPc' = "process_file"
    /\ UNCHANGED <<content, replacements, patchBackups>>
    /\ UNCHANGED <<runVars, optVars, impVars, assertVars, nameVars>>

RECURSIVE ReplaceFrom(_, _, _, _)
\* str.replace from position n on: every occurrence, left to right, without
\* overlap and with no word boundary
ReplaceFrom(line, n, old, new) ==
    IF n > Len(line) THEN <<>>
    ELSE IF /\ n + Len(old) - 1 <= Len(line)
            /\ SubSeq(line, n, n + Len(old) - 1) = old
    THEN new \o ReplaceFrom(line, n + Len(old), old, new)
    ELSE <<line[n]>> \o ReplaceFrom(line, n + 1, old, new)

\* line.replace(old, new)
replace(line, old, new) == ReplaceFrom(line, 1, old, new)

\* the if/elif chain of fix_sample_rate gives a line number one rule:
\* 'data' -> '_data' and '_sampleRate' -> 'sampleRate'
SampleRateTables ==
    {t \in SeqsBetween((1..MaxLineNum)
                          \X {<< <<"e">>, <<"_", "e">> >>,
                              << <<"_", "e">>, <<"e">> >>},
                       0, MaxPatches) :
        \A m, n \in 1..Len(t) : m < n => t[m][1] < t[n][1]}

\* for i, line in enumerate(lines): the rule of line i + 1, when it has one
ApplySampleRate(lines, table) ==
    [n \in 1..Len(lines) |->
        IF \E t \in 1..Len(table) : table[t][1] = n
        THEN LET t == CHOOSE t \in 1..Len(table) : table[t][1] = n
             IN replace(lines[n], table[t][2][1], table[t][2][2])
        ELSE lines[n]]

\* fix-typescript-errors.py, fix_sample_rate: one file is read, patched
\* and written back
FixSampleRate ==
    /\ patchPc = "read"
    /\ \E t \in SampleRateTables :
          /\ line_fixes' = [n \in 1..Len(t) |-> <<t[n][1], t[n][2][1], t[n][2][2]>>]
          /\ written' = writelines(ApplySampleRate(readlines(content), t))
    /\ didWrite' = TRUE
    /\ patchPc' = "fix_sample_rate"
    /\ UNCHANGED <<content, replacements, patchBackups>>
    /\ UNCHANGED <<runVars, optVars, impVars, assertVars, nameVars>>

NextPatch ==
    \/ FixRemainingIssues
    \/ ProcessFile
    \/ FixSampleRate

SpecPatch == InitPatch /\ [][NextPatch]_vars

----------------------------------------------------------------------------
(* SpecAssert: optimize_assertions applied to a text *)

\* longest text, in lines, given to optimize_assertions alone
MaxAssertLines == 5

AssertLines ==
    {Code, Marker, Canon("x"), Canon("y"), Loose("x"), Negated("x"), Chain}

InitAssert ==
    /\ text \in SeqsBetween(AssertLines, 1, MaxAssertLines)
    /\ once = <<>>
    /\ twice = <<>>
    /\ optPc = "in"
    /\ asserted = <<>>
    /\ RunIdle
    /\ PatchIdle
    /\ ImpIdle
    /\ NameIdle

OptimizeAssertions ==
    /\ optPc = "in"
    /\ asserted' = optimize_assertions(text)
    /\ optPc' = "asserted"
    /\ UNCHANGED <<text, once, twice>>
    /\ UNCHANGED <<runVars, patchVars, impVars, nameVars>>

NextAssert ==
    \/ OptimizeAssertions

SpecAssert == InitAssert /\ [][NextAssert]_vars

----------------------------------------------------------------------------
(* The import deduplication passes: fix_duplicate_imports of               *)
(* fix-eslint-errors.py, fix_duplicate_imports of fix-variable-errors.py   *)
(* (I2CDecoder.ts) and the '../types' line filter of final-fix.py and      *)
(* fix-all-typescript-errors.py.  A line is a record of what the patterns  *)
(* of the passes see in it.                                                *)

\* longest file, in lines, given to a deduplication pass
MaxImportLines == 3

Names == {"a", "b", "c"}
Modules == {"m", "../types"}

Import(dflt, items, module, canon) ==
    [k |-> "import", dflt |-> dflt, items |-> items, module |-> module,
     canon |-> canon]
\* "import { a, b } from 'm';" exactly as the passes print it
Braced(items, module) == Import(None, items, module, TRUE)
\* 'import {a,b} from "m"': the same statement in another layout
LooseBraced(items, module) == Import(None, items, module, FALSE)
\* "import c from 'm';"
Default(name, module) == Import(name, <<>>, module, FALSE)
\* "import c, { a } from 'm';"
Combined(name, items, module) == Import(name, items, module, FALSE)
\* a line that is no import statement
Statement ==
    [k |-> "code", dflt |-> None, items |-> <<>>, module |-> "",
     canon |-> FALSE]
\* "// import of ../types": no import statement, but both words are in it
TypesComment ==
    [k |-> "comment", dflt |-> None, items |-> <<>>, module |-> "",
     canon |-> FALSE]

\* the pattern that recognises an import statement:
\*   eslint:   ^import\s+(.+?)\s+from\s+['"](.+?)['"]
\*   variable: ^import\s+\{([^}]+)\}\s+from\s+['"]([^'"]+)['"];?
Matches(p, line) ==
    /\ line.k = "import"
    /\ p = "variable" => (line.dflt = None /\ line.items # <<>>)

\* the items a matched line adds to import_map:
\*   eslint:   the braced list when there are braces, else the whole clause
\*   variable: the braced list
Items(p, line) ==
    IF p = "eslint" /\ line.items = <<>> THEN <<line.dflt>> ELSE line.items

RECURSIVE import_map(_, _, _, _)
\* import_map[module] after the first loop, collected from line n on
import_map(p, lines, module, n) ==
    IF n > Len(lines) THEN <<>>
    ELSE (IF Matches(p, lines[n]) /\ lines[n].module = module
          THEN Items(p, lines[n]) ELSE <<>>)
         \o import_map(p, lines, module, n + 1)

\* line n is the first matched import of its module
IsFirst(p, lines, n) ==
    /\ Matches(p, lines[n])
    /\ \A j \in 1..(n - 1) :
          ~(Matches(p, lines[j]) /\ lines[j].module = lines[n].module)

\* list(set(items)): the distinct items in the iteration order of the set,
\* which the language leaves open
unique_imports(items, order) ==
    SelectSeq(order, LAMBDA x : \E j \in 1..Len(items) : items[j] = x)

\* f"import {{ {', '.join(unique_imports)} }} from '{module}';"
merged(items, order, module) == Braced(unique_imports(items, order), module)

\* the iteration orders of the sets of one run: one per module
SetOrders == [Modules -> Orders(Names)]

RECURSIVE KeepFirst(_, _, _)
\* the loop over seen_modules: a matched line stays when it is the first
\* of its module
KeepFirst(p, lines, n) ==
    IF n > Len(lines) THEN <<>>
    ELSE (IF Matches(p, lines[n]) /\ ~IsFirst(p, lines, n)
          THEN <<>> ELSE <<lines[n]>>)
         \o KeepFirst(p, lines, n + 1)

\* fix-eslint-errors.py: fix_duplicate_imports(content)
fix_duplicate_imports(lines, order) ==
    LET many(module) == Len(import_map("eslint", lines, module, 1)) > 1
        modified == \E n \in 1..Len(lines) :
                        Matches("eslint", lines[n]) /\ many(lines[n].module)
        rewritten ==
            [n \in 1..Len(lines) |->
                IF IsFirst("eslint", lines, n) /\ many(lines[n].module)
                THEN merged(import_map("eslint", lines, lines[n].module, 1),
                            order[lines[n].module], lines[n].module)
                ELSE lines[n]]
    IN IF modified THEN KeepFirst("eslint", rewritten, 1) ELSE lines

\* fix-variable-errors.py: fix_duplicate_imports(), what it writes back
fix_duplicate_imports_I2CDecoder(lines, order) ==
    LET new_lines == KeepFirst("variable", lines, 1)
    IN [n \in 1..Len(new_lines) |->
           IF Matches("variable", new_lines[n])
           THEN merged(import_map("variable", lines, new_lines[n].module, 1),
                       order[new_lines[n].module], new_lines[n].module)
           ELSE new_lines[n]]

\* 'import' in line and '../types' in line
MentionsTypes(line) ==
    \/ line.k = "comment"
    \/ line.k = "import" /\ line.module = "../types"

RECURSIVE FilterTypes(_, _, _)
\* final-fix.py, fix-all-typescript-errors.py: the loop over seen_imports
FilterTypes(lines, n, seen_imports) ==
    IF n > Len(lines) THEN <<>>
    ELSE IF MentionsTypes(lines[n])
    THEN IF "../types" \notin seen_imports
         THEN <<lines[n]>>
              \o FilterTypes(lines, n + 1, seen_imports \cup {"../types"})
         ELSE FilterTypes(lines, n + 1, seen_imports)
    ELSE <<lines[n]>> \o FilterTypes(lines, n + 1, seen_imports)

\* what pass p makes of lines when its sets iterate in order
Deduplicate(p, lines, order) ==
    CASE p = "eslint" -> fix_duplicate_imports(lines, order)
      [] p = "variable" -> fix_duplicate_imports_I2CDecoder(lines, order)
      [] p = "filter" -> FilterTypes(lines, 1, {})

\* the lines of the files given to the passes
ImportLines ==
    {Braced(<<"a", "b">>, "m"), Braced(<<"b", "c">>, "m"),
     LooseBraced(<<"a">>, "m"), Default("c", "m"),
     Combined("c", <<"a">>, "m"),
     Braced(<<"a">>, "../types"), Braced(<<"b">>, "../types"),
     Statement, TypesComment}

InitImp ==
    /\ source \in SeqsBetween(ImportLines, 1, MaxImportLines)
    /\ pass = ""
    /\ deduped = <<>>
    /\ again = <<>>
    /\ impPc = "in"
    /\ RunIdle
    /\ OptIdle
    /\ PatchIdle
    /\ AssertIdle
    /\ NameIdle

\* process_file of fix-eslint-errors.py calls fix_duplicate_imports
DedupEslint ==
    /\ impPc = "in"
    /\ \E order \in SetOrders :
          deduped' = fix_duplicate_imports(source, order)
    /\ pass' = "eslint"
    /\ impPc' = "once"
    /\ UNCHANGED <<source, again>>
    /\ UNCHANGED <<runVars, optVars, patchVars, assertVars, nameVars>>

\* main of fix-variable-errors.py calls fix_duplicate_imports
DedupVariable ==
    /\ impPc = "in"
    /\ \E order \in SetOrders :
          deduped' = fix_duplicate_imports_I2CDecoder(source, order)
    /\ pass' = "variable"
    /\ impPc' = "once"
    /\ UNCHANGED <<source, again>>
    /\ UNCHANGED <<runVars, optVars, patchVars, assertVars, nameVars>>

\* step 1 of final-fix.py, fix_specific_files of
\* fix-all-typescript-errors.py
DedupFilter ==
    /\ impPc = "in"
    /\ deduped' = FilterTypes(source, 1, {})
    /\ pass' = "filter"
    /\ impPc' = "once"
    /\ UNCHANGED <<source, again>>
    /\ UNCHANGED <<runVars, optVars, patchVars, assertVars, nameVars>>

\* the same script is run once more, over what it left: a new process,
\* whose sets iterate in an order of their own
DedupAgain ==
    /\ impPc = "once"
    /\ \E order \in SetOrders : again' = Deduplicate(pass, deduped, order)
    /\ impPc' = "twice"
    /\ UNCHANGED <<source, pass, deduped>>
    /\ UNCHANGED <<runVars, optVars, patchVars, assertVars, nameVars>>

NextImp ==
    \/ DedupEslint
    \/ DedupVariable
    \/ DedupFilter
    \/ DedupAgain

SpecImp == InitImp /\ [][NextImp]_vars

----------------------------------------------------------------------------
(* fix_variable_names of fix-all-typescript-errors.py: the rename rules    *)
(* applied to the content of a .ts file.  A content is a sequence of       *)
(* tokens: the punctuation the rules look at, the prefix "_", the names    *)
(* 'session' (rules of all three groups, as 'options', 'error', 'data')    *)
(* and 'port' (rules of the first two groups), and one other word          *)
(* character.  The rules of 'args', 'params', 'event', 'response' and      *)
(* 'rinfo' are rules of 'session' under another name; no modelled content  *)
(* holds 'catch'.                                                          *)

\* longest content, in tokens, given to fix_variable_names
MaxTokens == 4

Tokens == {"(", ")", ".", ":", "'", "_", "session", "port", "w"}

\* \w
IsWordToken(t) == t \in {"_", "session", "port", "w"}
WordBefore(toks, n) == n > 1 /\ IsWordToken(toks[n - 1])
WordAfter(toks, n) == n < Len(toks) /\ IsWordToken(toks[n + 1])
\* \bname\b at position n
WholeWord(toks, n, name) ==
    toks[n] = name /\ ~WordBefore(toks, n) /\ ~WordAfter(toks, n)

\* r'\(([^)]*)\bname\b' with the '(' at position p: the end of the match,
\* the last whole word name that no ')' separates from p, or 0
LastParam(toks, p, name) ==
    LET ends == {q \in (p + 1)..Len(toks) :
                    /\ WholeWord(toks, q, name)
                    /\ \A j \in (p + 1)..(q - 1) : toks[j] # ")"}
    IN IF ends = {} THEN 0
       ELSE CHOOSE q \in ends : \A r \in ends : r <= q

RECURSIVE SubParam(_, _, _)
\* re.sub(r'\(([^)]*)\bname\b', r'(\1_name', content), from position n on
SubParam(toks, n, name) ==
    IF n > Len(toks) THEN <<>>
    ELSE IF toks[n] = "(" /\ LastParam(toks, n, name) # 0
    THEN LET q == LastParam(toks, n, name)
         IN SubSeq(toks, n, q - 1) \o <<"_", name>>
            \o SubParam(toks, q + 1, name)
    ELSE <<toks[n]>> \o SubParam(toks, n + 1, name)

RECURSIVE SubMember(_, _, _)
\* re.sub(r'(?<!\.)(?<!_)\bname\.', '_name.', content), from position n on
SubMember(toks, n, name) ==
    IF n > Len(toks) THEN <<>>
    ELSE IF /\ toks[n] = name
            /\ ~WordBefore(toks, n)
            /\ n > 1 => toks[n - 1] # "."
            /\ n < Len(toks) /\ toks[n + 1] = "."
    THEN <<"_", name, ".">> \o SubMember(toks, n + 2, name)
    ELSE <<toks[n]>> \o SubMember(toks, n + 1, name)

RECURSIVE SubPort(_, _)
\* re.sub(r'(?<!\.)(?<!_)\bport(?!\w)', '_port', content)
SubPort(toks, n) ==
    IF n > Len(toks) THEN <<>>
    ELSE IF /\ WholeWord(toks, n, "port")
            /\ n > 1 => toks[n - 1] # "."
    THEN <<"_", "port">> \o SubPort(toks, n + 1)
    ELSE <<toks[n]>> \o SubPort(toks, n + 1)

RECURSIVE SubObject(_, _, _)
\* re.sub(r'(?<![\'"])name(?![\'":])', '_name', content)
SubObject(toks, n, name) ==
    IF n > Len(toks) THEN <<>>
    ELSE IF /\ toks[n] = name
            /\ n > 1 => toks[n - 1] # "'"
            /\ n < Len(toks) => toks[n + 1] \notin {"'", ":"}
    THEN <<"_", name>> \o SubObject(toks, n + 1, name)
    ELSE <<toks[n]>> \o SubObject(toks, n + 1, name)

RECURSIVE SubTyped(_, _, _)
\* re.sub(r'(\w+)\s*\(\s*name:', r'\1(_name:', content)
SubTyped(toks, n, name) ==
    IF n > Len(toks) THEN <<>>
    ELSE IF /\ toks[n] = "("
            /\ WordBefore(toks, n)
            /\ n + 2 <= Len(toks)
            /\ toks[n + 1] = name
            /\ toks[n + 2] = ":"
    THEN <<"(", "_", name, ":">> \o SubTyped(toks, n + 3, name)
    ELSE <<toks[n]>> \o SubTyped(toks, n + 1, name)

\* the rules in the order of the replacements dict, then the special cases
fix_variable_names(toks) ==
    LET params == SubParam(SubParam(toks, 1, "session"), 1, "port")
        members == SubPort(SubMember(params, 1, "session"), 1)
        objects == SubObject(members, 1, "session")
    IN SubTyped(objects, 1, "session")

InitNames ==
    /\ ts_content \in SeqsBetween(Tokens, 1, MaxTokens)
    /\ renamed = <<>>
    /\ renamed_again = <<>>
    /\ namePc = "in"
    /\ RunIdle
    /\ OptIdle
    /\ PatchIdle
    /\ ImpIdle
    /\ AssertIdle

\* main runs fix_variable_names over the file
FixVariableNames ==
    /\ namePc = "in"
    /\ renamed' = fix_variable_names(ts_content)
    /\ namePc' = "once"
    /\ UNCHANGED <<ts_content, renamed_again>>
    /\ UNCHANGED <<runVars, optVars, patchVars, impVars, assertVars>>

\* the script is run once more, over the file it left
FixVariableNamesAgain ==
    /\ namePc = "once"
    /\ renamed_again' = fix_variable_names(renamed)
    /\ namePc' = "twice"
    /\ UNCHANGED <<ts_content, renamed>>
    /\ UNCHANGED <<runVars, optVars, patchVars, impVars, assertVars>>

NextNames ==
    \/ FixVariableNames
    \/ FixVariableNamesAgain

SpecNames == InitNames /\ [][NextNames]_vars

----------------------------------------------------------------------------
(* Claims about a run of apply_optimizations *)

InJob == pc \in {"backup", "read", "transform", "write", "remove", "count"}
LoopOver == pc \in {"report", "done", "aborted"}
Accounted == results.processed + results.skipped + Len(results.errors)

\* C1: in apply mode the original is written only in the write step of a
\* job whose create_backup succeeded, the backup then holding the text that
\* is overwritten; a failing create_backup ends the job with one more error
\* message, naming the companion, and leaves every original as it was.
C1_BackupBeforeWrite ==
    [][~dry_run =>
        /\ (orig' # orig =>
              /\ pc = "write"
              /\ original_file \in backedUp
              /\ backup[original_file] = orig[original_file]
              /\ \A o \in OriginalPaths \ {original_file} : orig'[o] = orig[o])
        /\ (pc = "backup" /\ pc' = "loop" =>
              /\ orig' = orig
              /\ backup' = backup
              /\ results'.errors =
                     Append(results.errors, ErrorMsg(optimized_file, "backup"))
              /\ results'.processed = results.processed
              /\ i' = i + 1)]_vars

\* C1 witness: a run in which one job wrote its original and another job's
\* create_backup failed and was recorded
C1_Witness ==
    /\ ~dry_run
    /\ mutated # {}
    /\ \E n \in 1..Len(results.errors) : results.errors[n][2] = "backup"

\* C2: in dry-run mode the originals, the companions and the backup
\* directory are at every moment what they were before the run, and when the
\* loop is over every discovered file is counted: as skipped when its
\* original is missing, else as processed or as an error.
C2_DryRunPure ==
    dry_run =>
        /\ orig = preRun
        /\ comp = preRunComp
        /\ backup = preRunBackup
        /\ backedUp = {} /\ mutated = {}
        /\ LoopOver =>
              /\ Accounted = Len(files)
              /\ results.skipped =
                    Cardinality({n \in 1..Len(files) :
                                    preRun[OriginalOf(files[n])] = NoFile})

\* C2 witness: a finished dry run that counted one file as processed and
\* one as skipped
C2_Witness ==
    /\ dry_run /\ pc = "done"
    /\ results.processed = 1 /\ results.skipped = 1

\* C3 (as claimed): at the end of an apply run every mutated original has a
\* backup that holds the original's text from before the run.
C3_BackupIsPreRun ==
    (~dry_run /\ LoopOver) =>
        \A o \in mutated : backup[o] # NoFile /\ backup[o] = preRun[o]

\* C4 (as claimed): a backup made in this run is never overwritten by a
\* later create_backup of the same run.
C4_FirstBackupWins ==
    [][\A o \in backedUp : backup'[o] = backup[o]]_vars

\* C5: generate_report is called once, only after the loop, and the report
\* it writes holds the collected results; the loop ends only after the last
\* discovered file; an exception in a job moves the loop to the next file;
\* and every run comes to its end.
C5_BatchSurvivesErrors ==
    /\ [](/\ reportCalls <= 1
          /\ (reportCalls = 1 <=> pc \in {"done", "aborted"})
          /\ (report # NoFile <=> pc = "done")
          /\ (pc = "done" => report = <<results>>)
          /\ (LoopOver => i = Len(files) + 1 /\ Accounted = Len(files)))
    /\ [][Len(results'.errors) > Len(results.errors) =>
             /\ pc' = "loop"
             /\ i' = i + 1
             /\ results'.errors[Len(results'.errors)][1] = files[i]]_vars
    /\ <>(pc \in {"done", "aborted"})

\* C5 witness: a finished run whose first file failed and whose second file
\* was processed, the report holding the message
C5_Witness ==
    /\ pc = "done"
    /\ Len(files) = 2
    /\ Len(results.errors) = 1 /\ results.errors[1][1] = files[1]
    /\ results.processed = 1
    /\ report = <<results>>

\* C6 (as claimed): in apply mode, at every point of a job before its write
\* step is done, the job's original holds its text from before the run.
C6_PreRunUntilWrite ==
    (~dry_run /\ pc \in {"backup", "read", "transform", "write"}) =>
        orig[original_file] = preRun[original_file]

----------------------------------------------------------------------------
(* Claims about the text phases and the patch scripts *)

\* the number of lines of the file before and after the script
LinesBefore == Len(readlines(content))
LinesAfter == Len(readlines(written))

\* C7 (as claimed): a script writes the file only after a backup of it was
\* made in the same run.
C7_WriteAfterBackup == didWrite => patchBackups # {}

\* C8 (as claimed): apply_additional_optimizations applied to its own
\* output returns that output.
C8_Idempotent == optPc = "twice" => twice = once

\* C9 (as claimed): the file a patch script leaves has as many lines as the
\* file it read.
C9_LineCountKept == patchPc # "read" => LinesAfter = LinesBefore

\* C10: when every patch of the set names a line past the end of the file,
\* the script raises nothing and the file holds afterwards what it held
\* before; process_file then does not even write it.
C10_OutOfRangeIgnored ==
    /\ (/\ patchPc = "final_fix"
        /\ \A n \in 1..Len(replacements) : replacements[n][1] > LinesBefore)
       => written = content
    /\ (/\ patchPc = "process_file"
        /\ \A n \in 1..Len(line_fixes) : line_fixes[n][1] > LinesBefore)
       => (written = content /\ ~didWrite)

\* C10 witness: final-fix.py ran over a file of one line with a patch set
\* whose patches all name line 2
C10_Witness ==
    /\ patchPc = "final_fix"
    /\ LinesBefore = 1
    /\ Len(replacements) >= 1
    /\ \A n \in 1..Len(replacements) : replacements[n][1] = 2
    /\ written = content

\* the line numbers the patch set names
Targets ==
    IF patchPc = "final_fix"
    THEN {replacements[n][1] : n \in 1..Len(replacements)}
    ELSE {line_fixes[n][1] : n \in 1..Len(line_fixes)}

\* C11 (as claimed): a line whose number no patch names is in the file
\* that is written at the same line number, unchanged.
C11_OnlyTargetsChange ==
    patchPc # "read" =>
        \A n \in 1..LinesBefore :
            n \notin Targets =>
                /\ n <= LinesAfter
                /\ readlines(written)[n] = readlines(content)[n]

\* the patches of line_fixes that name line n, in declaration order
FixesOf(n) == SelectSeq(line_fixes, LAMBDA f : f[1] = n)

\* C12 (as claimed): a line that several patches of process_file name ends
\* as the last of them alone makes it from the line that was read.
C12_LastPatchWins ==
    patchPc = "process_file" =>
        \A n \in 1..LinesBefore :
            Len(FixesOf(n)) > 1 =>
                LET last == FixesOf(n)[Len(FixesOf(n))]
                IN readlines(written)[n]
                     = fix_line(readlines(content)[n], last[2], last[3])

----------------------------------------------------------------------------
(* Claims about the import deduplication passes *)

Merging == impPc # "in" /\ pass \in {"eslint", "variable"}

\* the lines of a file that are import statements of module
ImportsOf(lines, module) ==
    {n \in 1..Len(lines) :
        lines[n].k = "import" /\ lines[n].module = module}

RECURSIVE FirstSeen(_)
\* items in first-seen order, exact duplicates collapsed
FirstSeen(items) ==
    IF items = <<>> THEN <<>>
    ELSE LET front == FirstSeen(SubSeq(items, 1, Len(items) - 1))
             x == items[Len(items)]
         IN IF \E j \in 1..Len(front) : front[j] = x
            THEN front ELSE Append(front, x)

\* C13 (as claimed): the statement that replaces several import statements
\* of one module lists their specifiers in first-seen order, duplicates
\* collapsed.
C13_MergeIsStable ==
    Merging =>
        \A module \in Modules :
            Cardinality({n \in 1..Len(source) :
                            /\ Matches(pass, source[n])
                            /\ source[n].module = module}) > 1
            => \E n \in 1..Len(deduped) :
                  /\ deduped[n].k = "import"
                  /\ deduped[n].module = module
                  /\ deduped[n].items
                       = FirstSeen(import_map(pass, source, module, 1))

\* C14 (as claimed): the pass returns its own output unchanged, and returns
\* unchanged a content in which no module is imported twice.
C14_DedupIdempotent ==
    /\ (Merging /\ impPc = "twice") => again = deduped
    /\ (/\ Merging
        /\ \A module \in Modules :
               Cardinality(ImportsOf(source, module)) <= 1)
       => deduped = source

\* a line as the claim of position sees it: an import statement counts as
\* its module, any other line as itself
Place(line) == IF line.k = "import" THEN <<line.module>> ELSE line

RECURSIVE FirstImports(_, _)
\* lines without the import statements of a module that an earlier line
\* already imports, from line n on
FirstImports(lines, n) ==
    IF n > Len(lines) THEN <<>>
    ELSE (IF /\ lines[n].k = "import"
             /\ \E j \in 1..(n - 1) :
                   lines[j].k = "import" /\ lines[j].module = lines[n].module
          THEN <<>> ELSE <<Place(lines[n])>>)
         \o FirstImports(lines, n + 1)

\* C15 (as claimed): after the pass a module has at most one import
\* statement, it stands where the module's first import stood, and the
\* other lines are as they were, in their order.
C15_OneImportPerModule ==
    Merging =>
        /\ \A module \in Modules :
               Cardinality(ImportsOf(deduped, module)) <= 1
        /\ [n \in 1..Len(deduped) |-> Place(deduped[n])]
             = FirstImports(source, 1)

\* the names a file imports from module
NamesOf(lines, module) ==
    UNION {({lines[n].dflt} \ {None})
              \cup {lines[n].items[j] : j \in 1..Len(lines[n].items)} :
           n \in ImportsOf(lines, module)}

\* C20 (as claimed): a pass leaves every module with the names that were
\* imported from it before.
C20_NoSpecifierLost ==
    impPc # "in" =>
        \A module \in Modules :
            NamesOf(deduped, module) = NamesOf(source, module)

----------------------------------------------------------------------------
(* Claims about optimize_assertions *)

\* a trivial existence assertion: expect(name).toBeDefined()
Trivial(line) == MatchVar(line) # None

AllIn(lines, P(_)) == \A n \in 1..Len(lines) : P(lines[n])

RECURSIVE IsSubsequence(_, _)
\* the lines of part are in whole, in their order
IsSubsequence(part, whole) ==
    IF part = <<>> THEN TRUE
    ELSE IF whole = <<>> THEN FALSE
    ELSE IF Head(part) = Head(whole)
    THEN IsSubsequence(Tail(part), Tail(whole))
    ELSE IsSubsequence(part, Tail(whole))

\* C17 (as claimed): the lines of the text that are no trivial assertion
\* are all in the output, unchanged and in their order.
C17_OnlyTrivialRemoved ==
    optPc = "asserted" =>
        IsSubsequence(SelectSeq(text, LAMBDA line : ~Trivial(line)), asserted)

\* the longest stretch of consecutive lines with 'toBeDefined()' in them
\* is at most Threshold long
ShortRuns(lines) ==
    \A a \in 1..Len(lines) :
        a + Threshold <= Len(lines)
        => ~AllIn(SubSeq(lines, a, a + Threshold), InRun)

\* C19 (as claimed): a text all of whose runs have at most 3 lines is
\* returned unchanged.
C19_ShortRunsKept ==
    (optPc = "asserted" /\ ShortRuns(text)) => asserted = text

----------------------------------------------------------------------------
(* Claims about the companions of a run *)

\* C18 (as claimed): when an apply run is over, the original of every
\* companion counted as processed holds apply_additional_optimizations of
\* what the companion held, and the companion is gone; a companion is
\* removed only when its original holds the text that was to be written.
C18_ProcessedMeansApplied ==
    /\ [](~dry_run /\ LoopOver =>
            \A f \in counted :
                /\ orig[OriginalOf(f)]
                     = apply_additional_optimizations(preRunComp[f])
                /\ comp[f] = NoFile)
    /\ [][\A f \in CompanionPaths :
             (comp[f] # NoFile /\ comp'[f] = NoFile)
             => (/\ OriginalOf(f) \in mutated
                 /\ orig[OriginalOf(f)] = final_content)]_vars

----------------------------------------------------------------------------
(* Claims about the jobs of a run and their accounting *)

\* C21 (as claimed): no two discovered companions have the same original
\* (and with it the same backup path, backup_dir/<original>).
C21_JobsIndependent ==
    \A m, n \in 1..Len(files) :
        m # n => OriginalOf(files[m]) # OriginalOf(files[n])

\* the place of a companion in the discovered files
IndexOf(f) == CHOOSE n \in 1..Len(files) : files[n] = f

\* C22: at the loop head and inside a job, processed + skipped + number of
\* messages is the number of files handled before the current one; when the
\* loop is over it is the number of discovered files; the messages name
\* their files in the order the files were handled.
C22_AccountedOnce ==
    /\ (pc = "loop" \/ InJob) => Accounted = i - 1
    /\ LoopOver => Accounted = Len(files)
    /\ pc # "find" =>
          \A m, n \in 1..Len(results.errors) :
              m < n => IndexOf(results.errors[m][1])
                         < IndexOf(results.errors[n][1])

\* C22 witness: a run of two files is over, both files failed
C22_Witness ==
    /\ LoopOver
    /\ Len(files) = 2
    /\ Len(results.errors) = 2
    /\ results.errors[1][1] = files[1]
    /\ results.errors[2][1] = files[2]

\* C24 (as claimed): in apply mode, when a job is recorded in the error
\* list its original holds what it held when the job began.
C24_FailedMeansUntouched ==
    [][(~dry_run /\ Len(results'.errors) > Len(results.errors))
         => orig'[original_file] = jobOrig]_vars

----------------------------------------------------------------------------
(* Claims about fix_variable_names *)

\* a name that carries the prefix twice
DoublePrefix(toks) ==
    \E n \in 1..(Len(toks) - 2) :
        /\ toks[n] = "_" /\ toks[n + 1] = "_"
        /\ toks[n + 2] \in {"session", "port"}

\* C23 (as claimed): the rules give no name a second prefix, and the rules
\* applied to their own output return it unchanged.
C23_RenameIdempotent ==
    /\ (namePc # "in" /\ ~DoublePrefix(ts_content)) => ~DoublePrefix(renamed)
    /\ namePc = "twice" => renamed_again = renamed

====
